---- MODULE Spec2Model ----
(***************************************************************************)
(* A model of ragoo_utilities/break_chimera.py: the chimeric-contig        *)
(* breaking utilities of RaGOO.  Every function of the file is one action  *)
(* that applies the function to the arguments held in the state and        *)
(* records what it returns (ret), the exception it raises (exc) and the    *)
(* mappings it mutates in place (contigs_dict, features).                  *)
(*                                                                         *)
(* Python lists are 0-based, TLA+ sequences 1-based: a Python index i is   *)
(* the TLA+ index i+1 throughout.                                          *)
(***************************************************************************)
EXTENDS Integers, Sequences, FiniteSets, TLC

VARIABLES
    fn,            \* the function of break_chimera.py under call
    pc,            \* "call" before the function runs, "done" after it
    alns,          \* the ContigAlignment argument: a sequence of alignment records
    params,        \* the scalar arguments of the call (l, p, r, d, c, chroms, header, ...)
    borders,       \* the borders / break_points argument: a sequence of <<start, end>>
    gff_ins,       \* the features given to avoid_gff_intervals: a set of <<start, end>>
    contigs_dict,  \* the sequence mapping that break_contig mutates in place
    features,      \* the feature mapping that update_gff mutates in place
    ranges,        \* get_ref_parts' local dict: chromosome -> covered length
    seq,           \* break_contig's local seq: the sequence popped from contigs_dict
    ret,           \* the value returned
    exc            \* "none", or the exception that ended the call

vars == <<fn, pc, alns, params, borders, gff_ins, contigs_dict, features, ranges, seq, ret, exc>>

---------------------------------------------------------------------------
(* Bounds of the model. *)

\* get_ref_parts: at most this many alignments, reference positions 0..MaxRefPos
MaxCovAlns == 3
MaxRefPos == 2

\* cluster_contig_alns: at most this many alignments on a contig of MaxQLen bases
MaxClusterAlns == 4
MaxQLen == 1

\* cluster_contig_alns on three significant chromosomes
MaxWideAlns == 4
MaxWideQLen == 2

\* avoid_gff_intervals: at most MaxBorders borders and MaxFeats features,
\* both with coordinates 0..MaxAdjPos
MaxBorders == 2
MaxFeats == 2
MaxAdjPos == 2

\* break_contig: a sequence of at most MaxSeqLen bases, at most MaxBreaks
\* break points
MaxSeqLen == 3
MaxBreaks == 2

\* update_gff: at most MaxGffBorders borders and MaxGffFeats features, both
\* with coordinates 0..MaxGffPos
MaxGffBorders == 2
MaxGffFeats == 2
MaxGffPos == 2

\* get_intra_contigs: at most MaxIntraAlns alignments to the main chromosome,
\* reference starts 0..MaxIntraRef, query starts 0..MaxIntraQuery
MaxIntraAlns == 3
MaxIntraRef == 2
MaxIntraQuery == 1

\* get_intra_contigs: the minimum alignment length l, and the length of the
\* alignments that pass it
MinLen == 2

Chroms == {"chr1", "chr2", "chr3"}

---------------------------------------------------------------------------
(* Python helpers. *)

Max(a, b) == IF a >= b THEN a ELSE b
Min(a, b) == IF a <= b THEN a ELSE b
Abs(a) == IF a >= 0 THEN a ELSE 0 - a

RECURSIVE Sum(_)
\* sum(list)
Sum(s) == IF s = <<>> THEN 0 ELSE Head(s) + Sum(Tail(s))

RECURSIVE Concat(_)
\* the concatenation of a sequence of sequences (repeated +=)
Concat(ss) == IF ss = <<>> THEN <<>> ELSE Head(ss) \o Concat(Tail(ss))

\* max(list) of a non-empty list
MaxOf(s) == CHOOSE m \in {s[i] : i \in DOMAIN s} : \A i \in DOMAIN s : s[i] <= m

\* list.index(v): the first position holding v
IndexOf(s, v) == CHOOSE i \in DOMAIN s : s[i] = v /\ \A j \in 1..(i-1) : s[j] # v

\* Python's order on tuples of integers of one length: lexicographic
TupleLess(x, y) ==
    \E k \in DOMAIN x : x[k] < y[k] /\ \A j \in 1..(k - 1) : x[j] = y[j]

\* sorted(): the permutation of the positions of keys that lists them in
\* increasing order.  Every key ends with its own position (as the tuples of
\* lines 61 and 193 do, and as the stability of the sort does for line 35),
\* so no two keys are equal.
SortedOrder(keys) ==
    [k \in DOMAIN keys |->
        CHOOSE i \in DOMAIN keys :
            Cardinality({j \in DOMAIN keys : TupleLess(keys[j], keys[i])}) = k - 1]

\* Sequences over S of length at most n
SeqUpTo(S, n) == UNION {[1..k -> S] : k \in 0..n}

\* Half-open intervals <<start, end>> with 0 <= start <= end <= n
Intervals(n) == {<<s, e>> : s \in 0..n, e \in 0..n} \ {<<s, e>> \in (0..n) \X (0..n) : s > e}

\* The chromosome names in order of first occurrence (dict insertion order)
RECURSIVE KeysInOrder(_)
KeysInOrder(hs) ==
    IF hs = <<>> THEN <<>>
    ELSE LET front == KeysInOrder(SubSeq(hs, 1, Len(hs) - 1))
             h == hs[Len(hs)]
         IN IF \E i \in DOMAIN front : front[i] = h THEN front ELSE Append(front, h)

---------------------------------------------------------------------------
(* get_ref_parts(alns, l, p, r) *)

\* lines 22-26: the (ref_start, ref_end) of the alignments of chromosome h
\* that are at least l long, in alignment order
all_intervals(as, l, h) ==
    LET kept == SelectSeq(as, LAMBDA a : ~(a.aln_len < l) /\ a.ref_header = h)
    IN [i \in DOMAIN kept |-> <<kept[i].ref_start, kept[i].ref_end>>]

\* line 35: sorted(all_intervals[i], key=lambda tup: tup[0])
sorted_intervals(ivs) ==
    LET order == SortedOrder([i \in DOMAIN ivs |-> <<ivs[i][1], i>>])
    IN [k \in DOMAIN ivs |-> ivs[order[k]]]

\* line 40 with the running maximum dropped: max_end = j[1]
MaxEndLast(max_end, j) == j[2]

\* line 40: max_end = max(max_end, j[1])
NextMaxEnd(max_end, j) == Max(max_end, j[2])

RECURSIVE Sweep(_, _, _)
\* lines 37-40: the sweep over the sorted intervals; covered is ranges[i]
Sweep(ivs, max_end, covered) ==
    IF ivs = <<>> THEN covered
    ELSE LET j == Head(ivs)
             start_new_terr == Max(j[1], max_end)
         IN Sweep(Tail(ivs), NextMaxEnd(max_end, j), covered + Max(0, j[2] - start_new_terr))

\* lines 34-40 for one chromosome, from max_end = -1
CoveredLength(ivs) == Sweep(sorted_intervals(ivs), -1, 0)

\* lines 19-40: the keys of all_intervals and the dict ranges
CovKeys(as, l) ==
    LET kept == SelectSeq(as, LAMBDA a : ~(a.aln_len < l))
    IN KeysInOrder([i \in DOMAIN kept |-> kept[i].ref_header])

RefRanges(as, l) ==
    LET keys == CovKeys(as, l)
    IN [h \in {keys[i] : i \in DOMAIN keys} |-> CoveredLength(all_intervals(as, l, h))]

\* lines 42-48.  (ranges[i]/total_sum)*100 > float(p) is compared exactly,
\* as ranges[i]*100 > p*total_sum.
GetRefParts ==
    /\ fn = "get_ref_parts" /\ pc = "call"
    /\ LET keys == CovKeys(alns, params.l)
           rg == RefRanges(alns, params.l)
           total_sum == Sum([i \in DOMAIN keys |-> rg[keys[i]]])
       IN /\ ranges' = rg
          /\ IF keys # <<>> /\ total_sum = 0
             THEN exc' = "ZeroDivisionError" /\ ret' = <<>>
             ELSE /\ exc' = "none"
                  /\ ret' = SelectSeq(keys, LAMBDA h :
                                 rg[h] * 100 > params.p * total_sum /\ rg[h] > params.r)
    /\ pc' = "done"
    /\ UNCHANGED <<fn, alns, params, borders, gff_ins, contigs_dict, features, seq>>

\* The alignments get_ref_parts reads: reference chromosome, reference
\* interval and alignment length (here the length of the reference interval).
CovAlignments ==
    {[ref_header |-> h, ref_start |-> iv[1], ref_end |-> iv[2], aln_len |-> iv[2] - iv[1]] :
        h \in {"chr1", "chr2"}, iv \in Intervals(MaxRefPos)}

InitCoverage ==
    /\ fn = "get_ref_parts" /\ pc = "call"
    /\ alns \in SeqUpTo(CovAlignments, MaxCovAlns)
    /\ params \in [l : {0, 2}, p : {40}, r : {1}]
    /\ borders = <<>> /\ gff_ins = {} /\ contigs_dict = <<>> /\ features = <<>>
    /\ ranges = <<>> /\ seq = <<>> /\ ret = <<>> /\ exc = "none"

SpecCoverage == InitCoverage /\ [][GetRefParts]_vars

\* The positions covered by the intervals of chromosome h that get_ref_parts keeps
TrueUnion(as, l, h) ==
    {x \in 0..(MaxRefPos + 1) :
        \E i \in DOMAIN as : /\ as[i].ref_header = h /\ as[i].aln_len >= l
                             /\ as[i].ref_start <= x /\ x < as[i].ref_end}

\* C6: for every chromosome, the covered length that the sort-and-sweep of
\* get_ref_parts leaves in ranges equals the number of positions in the set
\* union of that chromosome's (kept) half-open reference intervals.
C6_CoverageIsUnionLength ==
    (fn = "get_ref_parts" /\ pc = "done") =>
        /\ DOMAIN ranges = {alns[i].ref_header : i \in {k \in DOMAIN alns : alns[k].aln_len >= params.l}}
        /\ \A h \in DOMAIN ranges : ranges[h] = Cardinality(TrueUnion(alns, params.l, h))

\* C6 witness: three kept intervals of one chromosome have been swept, the
\* second nested in the first and the third overlapping the first, next to a
\* duplicate-free total of 2 covered positions.
C6_Witness ==
    /\ fn = "get_ref_parts" /\ pc = "done" /\ Len(alns) = 3
    /\ \A i \in 1..3 : alns[i].ref_header = "chr1" /\ alns[i].aln_len >= params.l
    /\ <<alns[1].ref_start, alns[1].ref_end>> = <<0, 2>>
    /\ <<alns[2].ref_start, alns[2].ref_end>> = <<0, 1>>
    /\ <<alns[3].ref_start, alns[3].ref_end>> = <<1, 2>>
    /\ ranges["chr1"] = 2

---------------------------------------------------------------------------
(* cluster_contig_alns(contig, alns, chroms, l) and get_borders *)

\* ContigAlignment.filter_ref_chroms(chroms): keep, in place, the alignments
\* whose reference chromosome is one of chroms
filter_ref_chroms(as, chroms) == SelectSeq(as, LAMBDA a : a.ref_header \in chroms)

\* ContigAlignment.filter_lengths(l): keep, in place, the alignments of
\* length at least l
filter_lengths(as, l) == SelectSeq(as, LAMBDA a : a.aln_len >= l)

\* lines 58-63: final_order = [i[2] for i in sorted(query_pos)], the tuples
\* (query_start, query_end, i) compared lexicographically
QueryOrder(as) ==
    SortedOrder([i \in DOMAIN as |-> <<as[i].query_start, as[i].query_end, i>>])

\* line 77 taking the current alignment's end: alns.query_ends[order[i]]
BorderAtCurrent(as, order, t) == as[order[t]].query_end

\* line 77: alns.query_ends[order[i-1]], the query end of the previous
\* alignment in sort order (t is the 1-based position of Python's i)
BorderAt(as, order, t) == as[order[t - 1]].query_end

\* line 74: range(1, len(ordered_refs)-1) stops before the last alignment;
\* the last 1-based position visited
LoopEnd(ordered_refs) == Len(ordered_refs) - 1

RECURSIVE BordersLoop(_, _, _, _, _, _)
\* lines 74-77 from position t on; bs is the list borders
BordersLoop(ordered_refs, as, order, t, current_ref, bs) ==
    IF t > LoopEnd(ordered_refs) THEN bs
    ELSE IF ordered_refs[t] # current_ref /\ ordered_refs[t + 1] # current_ref
         THEN BordersLoop(ordered_refs, as, order, t + 1, ordered_refs[t],
                          Append(bs, BorderAt(as, order, t)))
         ELSE BordersLoop(ordered_refs, as, order, t + 1, current_ref, bs)

\* lines 72-81, for a non-empty ordered_refs
get_borders(ordered_refs, as, order) ==
    LET bs == Append(BordersLoop(ordered_refs, as, order, 2, ordered_refs[1], <<0>>),
                     as[1].query_len)
    IN [i \in 1..(Len(bs) - 1) |-> <<bs[i], bs[i + 1]>>]

\* lines 51-68; ordered_refs[0] of line 73 raises IndexError when no
\* alignment is left after the filter
ClusterContigAlns ==
    /\ fn = "cluster_contig_alns" /\ pc = "call"
    /\ LET ctg_alns == filter_ref_chroms(alns, params.chroms)
           final_order == QueryOrder(ctg_alns)
           final_refs == [k \in DOMAIN final_order |-> ctg_alns[final_order[k]].ref_header]
       IN /\ alns' = ctg_alns
          /\ IF final_refs = <<>>
             THEN exc' = "IndexError" /\ ret' = <<>>
             ELSE exc' = "none" /\ ret' = get_borders(final_refs, ctg_alns, final_order)
    /\ pc' = "done"
    /\ UNCHANGED <<fn, params, borders, gff_ins, contigs_dict, features, ranges, seq>>

\* The alignments cluster_contig_alns reads, on a contig of qlen bases
ClusterAlignments(chrs, qlen) ==
    {[ref_header |-> h, query_start |-> iv[1], query_end |-> iv[2], query_len |-> qlen] :
        h \in chrs, iv \in Intervals(qlen)}

InitCluster ==
    /\ fn = "cluster_contig_alns" /\ pc = "call"
    /\ alns \in SeqUpTo(ClusterAlignments({"chr1", "chr2"}, MaxQLen), MaxClusterAlns)
    /\ params \in [chroms : {{"chr1", "chr2"}, {"chr1"}}]
    /\ borders = <<>> /\ gff_ins = {} /\ contigs_dict = <<>> /\ features = <<>>
    /\ ranges = <<>> /\ seq = <<>> /\ ret = <<>> /\ exc = "none"

SpecCluster == InitCluster /\ [][ClusterContigAlns]_vars

InitClusterWide ==
    /\ fn = "cluster_contig_alns" /\ pc = "call"
    /\ alns \in SeqUpTo(ClusterAlignments(Chroms, MaxWideQLen), MaxWideAlns)
    /\ params \in [chroms : {Chroms}]
    /\ borders = <<>> /\ gff_ins = {} /\ contigs_dict = <<>> /\ features = <<>>
    /\ ranges = <<>> /\ seq = <<>> /\ ret = <<>> /\ exc = "none"

SpecClusterWide == InitClusterWide /\ [][ClusterContigAlns]_vars

\* A border list tiles [0, n): it starts at 0, ends at n, every border's end
\* is the next border's start, and every border has start <= end
Tiles(bs, n) ==
    /\ bs # <<>>
    /\ bs[1][1] = 0
    /\ bs[Len(bs)][2] = n
    /\ \A i \in 1..(Len(bs) - 1) : bs[i][2] = bs[i + 1][1]
    /\ \A i \in DOMAIN bs : bs[i][1] <= bs[i][2]

\* C1: for a non-empty alignment set, the border list cluster_contig_alns
\* returns tiles the contig: first start 0, last end the query length,
\* consecutive borders meeting, every border with start <= end.
C1_BordersTileContig ==
    (fn = "cluster_contig_alns" /\ pc = "done" /\ alns # <<>>) =>
        exc = "none" /\ Tiles(ret, alns[1].query_len)

\* The alignments left after the filter, in the order of QueryOrder
Ordered(as) == LET o == QueryOrder(as) IN [k \in DOMAIN o |-> as[o[k]]]

\* o, a list of alignments in query order, is m >= 1 alignments to one
\* chromosome followed by n >= minB alignments to another one
TwoRuns(o, m, minB) ==
    /\ m >= 1 /\ Len(o) - m >= minB
    /\ \A k \in 1..m : o[k].ref_header = o[1].ref_header
    /\ \A k \in (m + 1)..Len(o) : o[k].ref_header = o[Len(o)].ref_header
    /\ o[1].ref_header # o[Len(o)].ref_header

\* The two borders that split the contig at the query end of the m-th
\* alignment of o
SplitAfter(o, m) ==
    <<(<<0, o[m].query_end>>), (<<o[m].query_end, o[1].query_len>>)>>

\* C7 as stated: a run of one or more alignments to A followed by a run of
\* one or more alignments to B gives exactly the borders (0, e), (e, query
\* length), e the query end of the last A alignment.
C7_TwoRunsSplit_AsStated ==
    (fn = "cluster_contig_alns" /\ pc = "done") =>
        LET o == Ordered(alns)
        IN \A m \in 1..Len(o) : TwoRuns(o, m, 1) =>
               exc = "none" /\ ret = SplitAfter(o, m)

\* C7 amended: a run of one or more alignments to A followed by a run of TWO
\* or more alignments to B gives exactly the borders (0, e), (e, query
\* length), e the query end of the last A alignment; followed by a single B
\* alignment it gives the one border (0, query length).
C7_TwoRunsSplit ==
    (fn = "cluster_contig_alns" /\ pc = "done") =>
        LET o == Ordered(alns)
        IN \A m \in 1..Len(o) :
              /\ TwoRuns(o, m, 2) => exc = "none" /\ ret = SplitAfter(o, m)
              /\ (TwoRuns(o, m, 1) /\ ~TwoRuns(o, m, 2)) =>
                     exc = "none" /\ ret = <<(<<0, o[1].query_len>>)>>

\* C7 witness: two chr1 alignments with different query ends followed by two
\* chr2 alignments have been clustered into a split at the second one's end.
C7_Witness ==
    /\ fn = "cluster_contig_alns" /\ pc = "done" /\ Len(alns) = 4
    /\ LET o == Ordered(alns)
       IN /\ TwoRuns(o, 2, 2)
          /\ o[1].query_end # o[2].query_end
          /\ ret = SplitAfter(o, 2)
    /\ Len(ret) = 2

---------------------------------------------------------------------------
(* avoid_gff_intervals(borders, gff_ins) *)

\* lines 92-97: the IntervalTree of the features; one of start == end is
\* skipped.  (A tree holds each interval once.)
FeatureTree(feats) == {f \in feats : f[1] # f[2]}

\* t[point]: the intervals of the tree that contain the point, begin <= point < end
TreeAt(t, point) == {iv \in t : iv[1] <= point /\ point < iv[2]}

RECURSIVE ProbeLoop(_, _)
\* lines 105-108 and 112-115: step by 1 until no interval contains x
ProbeLoop(t, x) == IF TreeAt(t, x) # {} THEN ProbeLoop(t, x + 1) ELSE x

\* lines 104-108 with "if" alone: a single step when an interval contains x
ProbeOnce(t, x) == IF TreeAt(t, x) # {} THEN x + 1 ELSE x

\* lines 103-108 (a border's start) and 110-115 (its end)
Probe(t, x) == ProbeLoop(t, x)

\* lines 99-117: new_borders before the last end is put back
ProbedBorders(bs, t) == [k \in DOMAIN bs |-> <<Probe(t, bs[k][1]), Probe(t, bs[k][2])>>]

\* lines 84-120; new_borders[-1] of line 119 raises IndexError on an empty list
AvoidGffIntervals ==
    /\ fn = "avoid_gff_intervals" /\ pc = "call"
    /\ LET t == FeatureTree(gff_ins)
           new_borders == ProbedBorders(borders, t)
           n == Len(borders)
       IN IF n = 0
          THEN exc' = "IndexError" /\ ret' = <<>>
          ELSE /\ exc' = "none"
               /\ ret' = [k \in 1..n |-> IF k < n THEN new_borders[k]
                                         ELSE <<new_borders[n][1], borders[n][2]>>]
    /\ pc' = "done"
    /\ UNCHANGED <<fn, alns, params, borders, gff_ins, contigs_dict, features, ranges, seq>>

\* Sets of at most n elements of S
SubsetsUpTo(S, n) == {T \in SUBSET S : Cardinality(T) <= n}

InitAdjust ==
    /\ fn = "avoid_gff_intervals" /\ pc = "call"
    /\ borders \in SeqUpTo(Intervals(MaxAdjPos), MaxBorders)
    /\ gff_ins \in SubsetsUpTo(Intervals(MaxAdjPos), MaxFeats)
    /\ alns = <<>> /\ params = <<>> /\ contigs_dict = <<>> /\ features = <<>>
    /\ ranges = <<>> /\ seq = <<>> /\ ret = <<>> /\ exc = "none"

SpecAdjust == InitAdjust /\ [][AvoidGffIntervals]_vars

\* x falls strictly inside a non-zero-length feature
StrictlyInside(x, feats) == \E f \in feats : f[1] < x /\ x < f[2]

\* C2: for a border list that tiles [0, query_length) and features lying
\* inside the contig, the list avoid_gff_intervals returns still tiles
\* [0, query_length).
C2_AdjustedBordersTile ==
    (/\ fn = "avoid_gff_intervals" /\ pc = "done" /\ borders # <<>>
     /\ Tiles(borders, borders[Len(borders)][2])
     /\ \A f \in gff_ins : f[2] <= borders[Len(borders)][2]) =>
        exc = "none" /\ Tiles(ret, borders[Len(borders)][2])

\* C5 as stated: no endpoint of any returned border, the last border's end
\* included, falls strictly inside a supplied non-zero-length feature.
C5_NoEndpointInFeature_AsStated ==
    (fn = "avoid_gff_intervals" /\ pc = "done" /\ exc = "none") =>
        \A k \in DOMAIN ret :
            ~StrictlyInside(ret[k][1], gff_ins) /\ ~StrictlyInside(ret[k][2], gff_ins)

\* C5 amended: for a non-empty border list, no start of a returned border
\* and no end of a returned border other than the last falls strictly inside
\* a supplied feature; the last border's end is the original final end,
\* whether or not a feature contains it.
C5_NoEndpointInFeature ==
    (fn = "avoid_gff_intervals" /\ pc = "done" /\ borders # <<>>) =>
        /\ exc = "none" /\ Len(ret) = Len(borders)
        /\ \A k \in DOMAIN ret :
              /\ ~StrictlyInside(ret[k][1], gff_ins)
              /\ k < Len(ret) => ~StrictlyInside(ret[k][2], gff_ins)
        /\ ret[Len(ret)][2] = borders[Len(borders)][2]

\* C5 witness: a border start and a non-final border end that lay inside
\* features have been moved, across two chained features, out of them.
C5_Witness ==
    /\ fn = "avoid_gff_intervals" /\ pc = "done" /\ Len(borders) = 2
    /\ Cardinality(FeatureTree(gff_ins)) = 2
    /\ TreeAt(FeatureTree(gff_ins), borders[1][2]) # {}
    /\ ret[1][2] >= borders[1][2] + 2
    /\ ret[2][1] = ret[1][2]

---------------------------------------------------------------------------
(* break_contig(contigs_dict, header, break_points) *)

\* header + '_chimera_broken:' + str(start) + '-' + str(end): one name per
\* (header, start, end); a contig's own name is <<header>>
BrokenName(header, b) == <<header, b[1], b[2]>>

\* seq[a:b] taking b as the last index read: seq[a:b+1]
SliceInclusive(sq, a, b) == SubSeq(sq, Min(a, Len(sq)) + 1, Min(b + 1, Len(sq)))

\* seq[a:b] for a, b >= 0: both clamped to len(seq), empty when a >= b
Slice(sq, a, b) == SubSeq(sq, Min(a, Len(sq)) + 1, Min(b, Len(sq)))

RECURSIVE StoreSlices(_, _, _, _)
\* lines 160-161: the dict after the slices of bps are stored, in order (a
\* later store to the same name overwrites)
StoreSlices(dict, header, sq, bps) ==
    IF bps = <<>> THEN dict
    ELSE LET name == BrokenName(header, Head(bps))
             stored == [k \in DOMAIN dict \cup {name} |->
                           IF k = name THEN Slice(sq, Head(bps)[1], Head(bps)[2]) ELSE dict[k]]
         IN StoreSlices(stored, header, sq, Tail(bps))

\* line 162: test_seq after the loop
TestSeq(sq, bps) == Concat([k \in DOMAIN bps |-> Slice(sq, bps[k][1], bps[k][2])])

\* lines 157-165.  The pop and the stores act on the caller's dict before
\* the assert of line 164 is reached.
BreakContig ==
    /\ fn = "break_contig" /\ pc = "call"
    /\ LET header == params.header
           popped == contigs_dict[<<header>>]
           rest == [k \in DOMAIN contigs_dict \ {<<header>>} |-> contigs_dict[k]]
       IN /\ seq' = popped
          /\ contigs_dict' = StoreSlices(rest, header, popped, borders)
          /\ IF TestSeq(popped, borders) = popped
             THEN exc' = "none" /\ ret' = <<"contigs_dict">>
             ELSE exc' = "AssertionError" /\ ret' = <<>>
    /\ pc' = "done"
    /\ UNCHANGED <<fn, alns, params, borders, gff_ins, features, ranges>>

Bases == {"A", "C"}

InitSplit ==
    /\ fn = "break_contig" /\ pc = "call"
    /\ params = [header |-> "ctg1"]
    /\ \E sq \in SeqUpTo(Bases, MaxSeqLen) :
          contigs_dict = (<<"ctg1">> :> sq) @@ (<<"ctg2">> :> <<"A">>)
    /\ borders \in SeqUpTo(Intervals(MaxSeqLen), MaxBreaks)
    /\ alns = <<>> /\ gff_ins = {} /\ features = <<>>
    /\ ranges = <<>> /\ seq = <<>> /\ ret = <<>> /\ exc = "none"

SpecSplit == InitSplit /\ [][BreakContig]_vars

\* The names break_contig gives sub-contigs of header
BrokenNames(dict, header) == {k \in DOMAIN dict : Len(k) = 3 /\ k[1] = header}

\* C3: for break points that tile [0, len(seq)), the assertion holds, every
\* border has its slice stored under its name, nothing else is stored for
\* the contig, and the stored slices concatenated in border order are seq.
C3_SplitReconstructs ==
    (fn = "break_contig" /\ pc = "done" /\ Tiles(borders, Len(seq))) =>
        /\ exc = "none"
        /\ BrokenNames(contigs_dict, params.header)
               = {BrokenName(params.header, borders[k]) : k \in DOMAIN borders}
        /\ \A k \in DOMAIN borders :
              contigs_dict[BrokenName(params.header, borders[k])]
                  = [i \in 1..(borders[k][2] - borders[k][1]) |-> seq[borders[k][1] + i]]
        /\ Concat([k \in DOMAIN borders |->
                      contigs_dict[BrokenName(params.header, borders[k])]]) = seq
        /\ <<params.header>> \notin DOMAIN contigs_dict

\* C3 witness: a three-base sequence has been cut by two non-empty borders
C3_Witness ==
    /\ fn = "break_contig" /\ pc = "done" /\ exc = "none"
    /\ Len(seq) = 3 /\ borders = <<(<<0, 1>>), (<<1, 3>>)>>
    /\ seq[1] # seq[2]
    /\ contigs_dict[<<"ctg1", 1, 3>>] = <<seq[2], seq[3]>>

\* C8: when the slices do not reconstruct the sequence, the call fails and
\* the mapping is left as before the call: the contig's entry still present,
\* no sub-contig entry added.
C8_FailedSplitLeavesDict ==
    (fn = "break_contig" /\ pc = "done" /\ TestSeq(seq, borders) # seq) =>
        /\ exc = "AssertionError"
        /\ <<params.header>> \in DOMAIN contigs_dict
        /\ contigs_dict[<<params.header>>] = seq
        /\ BrokenNames(contigs_dict, params.header) = {}

---------------------------------------------------------------------------
(* update_gff(features, borders, contig) *)

\* lines 133-134: an empty list under every border's name
RECURSIVE InitLists(_, _, _)
InitLists(feats, contig, bs) ==
    IF bs = <<>> THEN feats
    ELSE LET name == BrokenName(contig, Head(bs))
         IN InitLists([k \in DOMAIN feats \cup {name} |-> IF k = name THEN <<>> ELSE feats[k]],
                      contig, Tail(bs))

\* lines 138-140: the IntervalTree of the borders.  The tree holds each
\* interval once, and refuses a null interval (begin >= end) with ValueError.
BorderTree(bs) == {bs[k] : k \in DOMAIN bs}
HasNullInterval(bs) == \E k \in DOMAIN bs : bs[k][1] >= bs[k][2]

\* lines 150-151 leaving the end where it was: i.end is not shifted
LocalEndUnshifted(f, break_start) == f.end

\* line 151: i.end = i.end - break_start
LocalEnd(f, break_start) == f.end - break_start

\* lines 149-151: the feature with its name and coordinates rewritten
Rewritten(f, contig, border) ==
    [id |-> f.id, seqname |-> BrokenName(contig, border),
     start |-> f.start - border[1], end |-> LocalEnd(f, border[1])]

RECURSIVE RemapLoop(_, _, _, _)
\* lines 142-152 over the popped features: the mapping reached and the
\* exception that stopped the loop, "none" if it ran to the end
RemapLoop(feats, contig_feats, contig, bs) ==
    IF contig_feats = <<>> THEN [features |-> feats, exc |-> "none"]
    ELSE LET i == Head(contig_feats)
             query == TreeAt(BorderTree(bs), i.start)
         IN IF Cardinality(query) # 1
            THEN [features |-> feats, exc |-> "AssertionError"]
            ELSE LET query_border == CHOOSE b \in query : TRUE
                     break_number == IndexOf(bs, query_border)
                     name == BrokenName(contig, bs[break_number])
                 IN RemapLoop([feats EXCEPT ![name] = Append(@, Rewritten(i, contig, query_border))],
                              Tail(contig_feats), contig, bs)

\* lines 123-154
UpdateGff ==
    /\ fn = "update_gff" /\ pc = "call"
    /\ LET contig == params.contig
           contig_feats == features[<<contig>>]
           rest == [k \in DOMAIN features \ {<<contig>>} |-> features[k]]
           lists == InitLists(rest, contig, borders)
           done == RemapLoop(lists, contig_feats, contig, borders)
       IN IF HasNullInterval(borders)
          THEN features' = lists /\ exc' = "ValueError" /\ ret' = <<>>
          ELSE /\ features' = done.features
               /\ exc' = done.exc
               /\ ret' = IF done.exc = "none" THEN <<"features">> ELSE <<>>
    /\ pc' = "done"
    /\ UNCHANGED <<fn, alns, params, borders, gff_ins, contigs_dict, ranges, seq>>

\* A border list whose borders meet end to start: the consecutive pairs of
\* a list of points
Chain(ps) == [k \in 1..(Len(ps) - 1) |-> <<ps[k], ps[k + 1]>>]

\* The features of a contig: numbered records with a (start, end) in 0..n
FeatureLists(contig, n, max) ==
    {[k \in DOMAIN ivs |-> [id |-> k, seqname |-> <<contig>>, start |-> ivs[k][1], end |-> ivs[k][2]]] :
        ivs \in SeqUpTo(Intervals(n), max)}

InitRemap ==
    /\ fn = "update_gff" /\ pc = "call"
    /\ \E fs \in FeatureLists("ctg1", MaxGffPos, MaxGffFeats) :
          /\ params = [contig |-> "ctg1", feats |-> fs]
          /\ features = (<<"ctg1">> :> fs) @@ (<<"ctg2">> :> <<>>)
    /\ \E ps \in SeqUpTo(0..MaxGffPos, MaxGffBorders + 1) : borders = Chain(ps)
    /\ alns = <<>> /\ gff_ins = {} /\ contigs_dict = <<>>
    /\ ranges = <<>> /\ seq = <<>> /\ ret = <<>> /\ exc = "none"

SpecRemap == InitRemap /\ [][UpdateGff]_vars

\* The (name, position) places of the output lists that hold feature id
PlacesOf(id) ==
    {pl \in UNION {{<<name, j>> : j \in DOMAIN features[name]} : name \in DOMAIN features} :
        features[pl[1]][pl[2]].id = id}

\* The border, among bs, whose half-open span holds x
BorderHolding(bs, x) == CHOOSE b \in BorderTree(bs) : b[1] <= x /\ x < b[2]

\* C4 as stated: after update_gff every input feature is in exactly one
\* output sub-contig's list, with 0 <= local_start <= local_end <= length of
\* that sub-contig, features that cross a border included.
C4_FeatureRemapTotal_AsStated ==
    (fn = "update_gff" /\ pc = "done" /\ exc = "none") =>
        \A k \in DOMAIN params.feats :
            /\ Cardinality(PlacesOf(k)) = 1
            /\ \A pl \in PlacesOf(k) :
                  LET f == features[pl[1]][pl[2]]
                  IN /\ Len(pl[1]) = 3
                     /\ 0 <= f.start /\ f.start <= f.end
                     /\ f.end <= pl[1][3] - pl[1][2]

\* C4 amended: after update_gff returns, every input feature is in exactly
\* one output sub-contig's list, the one of the border that holds its start,
\* renamed to it and shifted by that border's start, with 0 <= local_start
\* <= local_end; local_end <= length of the sub-contig holds exactly for the
\* features that end at or before that border's end.
C4_FeatureRemapTotal ==
    (fn = "update_gff" /\ pc = "done" /\ exc = "none") =>
        \A k \in DOMAIN params.feats :
            LET orig == params.feats[k]
                b == BorderHolding(borders, orig.start)
            IN /\ Cardinality(PlacesOf(k)) = 1
               /\ \A pl \in PlacesOf(k) :
                     LET f == features[pl[1]][pl[2]]
                     IN /\ pl[1] = BrokenName(params.contig, b)
                        /\ f.seqname = pl[1]
                        /\ f.start = orig.start - b[1] /\ f.end = orig.end - b[1]
                        /\ 0 <= f.start /\ f.start <= f.end
                        /\ (f.end <= b[2] - b[1]) <=> (orig.end <= b[2])

\* C4 witness: with two borders, a feature of the second border has been
\* moved to the second sub-contig and shifted, after a feature of the first.
C4_Witness ==
    /\ fn = "update_gff" /\ pc = "done" /\ exc = "none"
    /\ borders = <<(<<0, 1>>), (<<1, 2>>)>>
    /\ Len(params.feats) = 2
    /\ params.feats[2].start = 1 /\ params.feats[2].end = 2
    /\ Len(features[<<"ctg1", 1, 2>>]) = 1
    /\ features[<<"ctg1", 1, 2>>][1].start = 0 /\ features[<<"ctg1", 1, 2>>][1].end = 1
    /\ Len(features[<<"ctg1", 0, 1>>]) = 1

---------------------------------------------------------------------------
(* get_intra_contigs(alns, l, d, c) *)

\* The total alignment length of the alignments to chromosome h
AlignedLength(as, h) ==
    Sum([i \in DOMAIN as |-> IF as[i].ref_header = h THEN as[i].aln_len ELSE 0])

\* UniqueContigAlignment(alns).ref_chrom: the chromosome with the most
\* aligned length, one fixed choice among equals ("None" without alignments)
BestHeader(as) ==
    IF as = <<>> THEN "None"
    ELSE CHOOSE h \in {as[i].ref_header : i \in DOMAIN as} :
             \A i \in DOMAIN as : AlignedLength(as, as[i].ref_header) <= AlignedLength(as, h)

\* LongestContigAlignment(ctg_alns).strand: the strand of one longest alignment
LongestStrand(as) ==
    LET i == CHOOSE k \in DOMAIN as : \A j \in DOMAIN as : as[j].aln_len <= as[k].aln_len
    IN as[i].strand

\* lines 190-195: final_order = [i[2] for i in sorted(query_pos)], the tuples
\* (ref_start, ref_end, i) compared lexicographically
RefOrder(as) ==
    SortedOrder([i \in DOMAIN as |-> <<as[i].ref_start, as[i].ref_end, i>>])

\* lines 203-206: query_starts and query_ends, exchanged when is_rc
SwappedStart(a, is_rc) == IF is_rc THEN a.query_end ELSE a.query_start
SwappedEnd(a, is_rc) == IF is_rc THEN a.query_start ELSE a.query_end

\* lines 213-215
distances_wrt_ref(as, order) ==
    [i \in 1..(Len(order) - 1) |-> as[order[i + 1]].ref_start - as[order[i]].ref_start]

\* lines 218-220
distances_wrt_ctg(as, order, is_rc) ==
    [i \in 1..(Len(order) - 1) |->
        Abs(SwappedStart(as[order[i + 1]], is_rc) - SwappedStart(as[order[i]], is_rc))]

\* line 226 taking the alignment after the gap: index(max) + 1
BreakIndexAfter(dists) == IndexOf(dists, MaxOf(dists)) + 1

\* line 226: break_index = distances_wrt_ref.index(max(distances_wrt_ref))
BreakIndex(dists) == IndexOf(dists, MaxOf(dists))

\* lines 228, 230, 234: the two pieces cut at b
TwoPieces(b, query_len) == <<(<<0, b>>), (<<b, query_len>>)>>

\* lines 224-234 on the filtered alignments; <<>> stands for None
IntraBreak(as, d, c) ==
    LET final_order == RefOrder(as)
        is_rc == LongestStrand(as) = "-"
        ordered_query_starts == [k \in DOMAIN final_order |-> SwappedStart(as[final_order[k]], is_rc)]
        ordered_query_ends == [k \in DOMAIN final_order |-> SwappedEnd(as[final_order[k]], is_rc)]
        dref == distances_wrt_ref(as, final_order)
        dctg == distances_wrt_ctg(as, final_order, is_rc)
    IN IF dref = <<>> THEN <<>>
       ELSE IF MaxOf(dref) > d
            THEN LET break_index == BreakIndex(dref)
                 IN IF ordered_query_starts[break_index] < ordered_query_ends[break_index]
                    THEN TwoPieces(ordered_query_starts[break_index], as[1].query_len)
                    ELSE TwoPieces(ordered_query_ends[break_index], as[1].query_len)
            ELSE IF MaxOf(dctg) > c
                 THEN TwoPieces(ordered_query_starts[1], as[1].query_len)
                 ELSE <<>>

\* lines 179-183: the copy of alns restricted to the best chromosome and to
\* the alignments of length at least l
IntraAlns(as, l) == filter_lengths(filter_ref_chroms(as, {BestHeader(as)}), l)

\* lines 168-234; alns itself is left alone (the filters act on a deep copy)
GetIntraContigs ==
    /\ fn = "get_intra_contigs" /\ pc = "call"
    /\ LET ctg_alns == IntraAlns(alns, params.l)
       IN ret' = IF ctg_alns = <<>> THEN <<>> ELSE IntraBreak(ctg_alns, params.d, params.c)
    /\ exc' = "none"
    /\ pc' = "done"
    /\ UNCHANGED <<fn, alns, params, borders, gff_ins, contigs_dict, features, ranges, seq>>

\* The contig length of the get_intra_contigs inputs: room for an alignment
\* of MinLen bases at the last query start
IntraQueryLen == MaxIntraQuery + MinLen

\* An alignment of len bases from rs on the reference and from qs on the contig
IntraAlignment(h, rs, qs, len, strand) ==
    [ref_header |-> h, ref_start |-> rs, ref_end |-> rs + len,
     query_start |-> qs, query_end |-> qs + len, aln_len |-> len,
     query_len |-> IntraQueryLen, strand |-> strand]

\* What else the contig aligns to, next to its alignments of MinLen bases to
\* chr1: nothing, a shorter alignment to chr1, or an alignment to chr2
OtherAlns(strand) ==
    {<<>>,
     <<IntraAlignment("chr1", 0, 0, MinLen - 1, strand)>>,
     <<IntraAlignment("chr2", 0, 0, MinLen, strand)>>}

InitIntra ==
    /\ fn = "get_intra_contigs" /\ pc = "call"
    /\ \E strand \in {"+", "-"} :
          \E main \in SeqUpTo({IntraAlignment("chr1", rs, qs, MinLen, strand) :
                                   rs \in 0..MaxIntraRef, qs \in 0..MaxIntraQuery},
                              MaxIntraAlns) :
             \E other \in OtherAlns(strand) : alns = main \o other
    /\ params \in [l : {MinLen}, d : {0, 1}, c : {0}]
    /\ borders = <<>> /\ gff_ins = {} /\ contigs_dict = <<>> /\ features = <<>>
    /\ ranges = <<>> /\ seq = <<>> /\ ret = <<>> /\ exc = "none"

SpecIntra == InitIntra /\ [][GetIntraContigs]_vars
\* The alignments of the best chromosome of length >= l, in reference-start order
IntraOrdered == LET as == IntraAlns(alns, params.l)
                    o == RefOrder(as)
                IN [k \in DOMAIN o |-> as[o[k]]]

\* The contig is read reverse-complemented: its longest kept alignment is on "-"
IntraIsRc == LongestStrand(IntraAlns(alns, params.l)) = "-"

\* C10: get_intra_contigs returns a split iff some consecutive
\* reference-start gap exceeds d or some consecutive query-start gap exceeds
\* c; a split is exactly the borders (0, b), (b, query_length) with 0 <= b <=
\* query_length; when a reference gap exceeds d, b is the lower of the
\* (strand-swapped) query start and end of the alignment at the first index
\* of the maximum reference gap; otherwise b is the (strand-swapped) query
\* start of the first alignment in reference order.
C10_IntraSplit ==
    (fn = "get_intra_contigs" /\ pc = "done") =>
        LET o == IntraOrdered
            rc == o # <<>> /\ IntraIsRc
            gaps == 1..(Len(o) - 1)
            refGap == [i \in gaps |-> o[i + 1].ref_start - o[i].ref_start]
            queryGap == [i \in gaps |-> Abs(SwappedStart(o[i + 1], rc) - SwappedStart(o[i], rc))]
            refRule == \E i \in gaps : refGap[i] > params.d
            queryRule == \E i \in gaps : queryGap[i] > params.c
        IN /\ exc = "none"
           /\ (ret # <<>>) <=> (refRule \/ queryRule)
           /\ ret # <<>> =>
                 /\ Len(ret) = 2
                 /\ ret[1][1] = 0 /\ ret[1][2] = ret[2][1]
                 /\ ret[2][2] = IntraQueryLen
                 /\ 0 <= ret[1][2] /\ ret[1][2] <= IntraQueryLen
           /\ refRule =>
                 \E j \in gaps :
                    /\ \A i \in gaps : refGap[i] <= refGap[j]
                    /\ \A i \in 1..(j - 1) : refGap[i] < refGap[j]
                    /\ ret[1][2] = Min(SwappedStart(o[j], rc), SwappedEnd(o[j], rc))
           /\ (~refRule /\ queryRule) => ret[1][2] = SwappedStart(o[1], rc)

\* C10 witness (reference rule): three kept alignments on the "-" strand,
\* the second reference gap the larger, have been split at the query
\* coordinate of the second alignment in reference order, the extra chr2
\* alignment filtered out.
C10_Witness ==
    /\ fn = "get_intra_contigs" /\ pc = "done" /\ Len(alns) = 4
    /\ LET o == IntraOrdered
       IN /\ Len(o) = 3 /\ IntraIsRc
          /\ o[3].ref_start - o[2].ref_start > o[2].ref_start - o[1].ref_start
          /\ o[3].ref_start - o[2].ref_start > params.d
          /\ o[2].query_start # o[1].query_start
          /\ ret = TwoPieces(o[2].query_start, IntraQueryLen)

---------------------------------------------------------------------------
(* Empty and single-alignment inputs of the three border-producing functions *)

InitGraceful == InitCluster \/ InitAdjust \/ InitIntra

NextGraceful == ClusterContigAlns \/ AvoidGffIntervals \/ GetIntraContigs

SpecGraceful == InitGraceful /\ [][NextGraceful]_vars

\* C9: no alignment left after the chromosome filter, or exactly one, makes
\* cluster_contig_alns return a no-split result (the whole-contig border for
\* one alignment) without raising; an empty border list makes
\* avoid_gff_intervals return without raising; zero or one alignment makes
\* get_intra_contigs return no breakpoint without raising.
C9_EmptyInputsNoSplit ==
    /\ (fn = "cluster_contig_alns" /\ pc = "done" /\ Len(alns) <= 1) =>
          /\ exc = "none"
          /\ Len(alns) = 1 => ret = <<(<<0, alns[1].query_len>>)>>
    /\ (fn = "avoid_gff_intervals" /\ pc = "done" /\ borders = <<>>) =>
          exc = "none" /\ ret = <<>>
    /\ (fn = "get_intra_contigs" /\ pc = "done" /\ Len(alns) <= 1) =>
          exc = "none" /\ ret = <<>>

====
